---- MODULE Spec2Model ----
(***************************************************************************)
(* Checkout orchestration of the Lovelace backend: PaymentAgent            *)
(* (payment_agent.py), UCPClient (ucp_client.py), BrowserAutomation        *)
(* (browser_automation.py), StripeTools (stripe_tools.py) and the          *)
(* /payment-agent routes (routes.py).                                      *)
(*                                                                         *)
(* The agent's handlers are asyncio coroutines: a handler runs atomically  *)
(* between two awaits that really suspend (an HTTP round trip, the browser *)
(* run).  Each action below is one such atomic piece.  The merchant, the   *)
(* merchant's web site and Stripe are the environment: their answers are   *)
(* chosen with \E from small sets.                                         *)
(***************************************************************************)
EXTENDS Integers, Sequences, FiniteSets, TLC

\* ------------------------------------------------------------------ bounds
MaxCart == 2        \* longest cart explored
MaxCheckouts == 2   \* sessions the merchant / Stripe side creates
MaxAttempts == 2    \* completion requests a merchant receives
MaxRequests == 3    \* discovery GETs one UCPClient instance sends
MaxJobs == 2        \* uploads to /3d/boyfriends/custom/generate
MaxChats == 3       \* chat() calls on one PaymentAgent

\* ------------------------------------------------------------ input domains
None == "None"
Merchants == {"shopA", "shopB"}
Products == {"p1", "p2"}
Quantities == {1}
\* shipping_address argument: absent, a dict Address(**d) accepts, one it rejects
Addresses == {"None", "valid", "invalid"}
\* checkout_id argument of _complete_checkout: a session id, or 0 for an id no
\* session has
CheckoutIds == 0..MaxCheckouts

\* ----------------------------------------------------------- environment
\* the merchant account a merchant reports for its checkouts
AccountOf(m) == IF m = "shopA" THEN "acct_A" ELSE "acct_B"
\* the total, in cents, a merchant reports for its session `id`
SessionTotal(id) == 100 * id

\* HTTP answers to GET /.well-known/ucp: a status and, for 200, the JSON body
DiscoveryAnswers ==
    { [status |-> 404, body |-> "none"],
      [status |-> 403, body |-> "none"],
      [status |-> 500, body |-> "none"],
      [status |-> 0,   body |-> "none"],          \* connection error, no status
      [status |-> 300, body |-> "supported"],     \* 3xx that is no redirect, JSON body
      [status |-> 200, body |-> "supported"],     \* {"supported": true, "endpoints": {...}}
      [status |-> 200, body |-> "unsupported"],   \* {"supported": false, "endpoints": {}}
      [status |-> 200, body |-> "malformed"] }    \* JSON that UCPCapabilities rejects

\* shapes of the JSON a merchant answers to the create POST
CheckoutShapes == {"full", "no_protocol", "no_merchant_url"}

\* ---------------------------------------------------------------- state
VARIABLES
    enable_browser_fallback,  \* PaymentAgent.enable_browser_fallback
    current_cart,             \* PaymentAgent.current_cart
    current_checkout,         \* PaymentAgent.current_checkout
    call,                     \* the _create_checkout coroutine in flight
    ret,                      \* what the last handler step returned (None: nothing)
    nsessions,                \* UCP sessions the merchants created: ids 1..nsessions
    sent,                     \* requests the last step issued, by kind and handler
    seenKeys,                 \* Idempotency-Keys the merchant has processed
    charges,                  \* charges the merchant executed, per checkout id
    client,                   \* one UCPClient instance driven by its own callers
    browser,                  \* one BrowserAutomation instance and its call in flight
    server,                   \* the /payment-agent routes: the module-level agent
                              \* instance, the agents constructed, requests in flight
    jobs,                     \* the /3d routes: job_statuses, the background tasks,
                              \* the model files on disk, the last response
    chats,                    \* PaymentAgent.conversation_history and the chat()
                              \* calls in flight
    video                     \* the /api/video-call/live connections: handler
                              \* position, client side, active_sessions entry

agentVars == << enable_browser_fallback, current_cart, current_checkout, call, ret,
                nsessions, sent, seenKeys, charges >>

vars == << enable_browser_fallback, current_cart, current_checkout, call, ret,
           nsessions, sent, seenKeys, charges, client, browser, server, jobs, chats,
           video >>

\* what the steps of one component leave alone
agentFrame == << client, browser, server, jobs, chats, video >>
clientFrame == << agentVars, browser, server, jobs, chats, video >>
browserFrame == << agentVars, client, server, jobs, chats, video >>
serverFrame == << agentVars, client, browser, jobs, chats, video >>
jobsFrame == << agentVars, client, browser, server, chats, video >>
chatFrame == << agentVars, client, browser, server, jobs, video >>
videoFrame == << agentVars, client, browser, server, jobs, chats >>

\* ------------------------------------------------------------- UCPClient
\* UCPClient.__init__: self._capabilities = None
CapsNone == [set |-> FALSE, supported |-> FALSE, endpoints |-> "empty"]

NewClientCapabilities == CapsNone

\* aiohttp's response.raise_for_status(): raises for a status of 400 and above
RaiseForStatus(status) == status >= 400

\* UCPClient.discover on one answer: the capabilities it caches and whether it raises
Discover(ans) ==
    IF ans.status = 0
      THEN [raised |-> TRUE, error |-> "UCP discovery failed", caps |-> CapsNone]
    ELSE IF ans.status = 404
      THEN [raised |-> FALSE, error |-> None,
            caps |-> [set |-> TRUE, supported |-> FALSE, endpoints |-> "empty"]]
    ELSE IF RaiseForStatus(ans.status)
      THEN [raised |-> TRUE, error |-> "UCP discovery failed", caps |-> CapsNone]
    ELSE IF ans.body = "malformed"
      THEN [raised |-> TRUE, error |-> "UCPCapabilities validation error",
            caps |-> CapsNone]
    ELSE [raised |-> FALSE, error |-> None,
          caps |-> [set |-> TRUE,
                    supported |-> (ans.body \in {"supported", "supported_partial"}),
                    endpoints |-> IF ans.body = "supported" THEN "advertised"
                                  ELSE IF ans.body = "supported_partial" THEN "partial"
                                  ELSE "empty"]]

\* a supports_ucp that awaits discover() on every call
SupportsUcpAlwaysDiscovers(caps) == TRUE

\* UCPClient.supports_ucp: discovery is awaited only while nothing is cached
SupportsUcpNeedsDiscover(caps) == ~caps.set

\* UCPClient.supports_ucp: the value returned once discovery is over
SupportsUcpResult(caps) == IF caps.set THEN caps.supported ELSE FALSE

\* ------------------------------------------------- UCPClient on its own
\* merchant_base_url after rstrip('/'): an origin and the path below it
ClientBases ==
    { [origin |-> "https://shop.example", path |-> << >>],
      [origin |-> "https://shop.example", path |-> <<"store">>] }

\* checkout_id arguments of the checkout methods
ClientCheckoutIds == {"co_1", "co_2"}

\* discovery answers a client on its own meets: those above and a capability
\* document whose endpoints map names only some operations
ClientDiscoveryAnswers ==
    DiscoveryAnswers \cup { [status |-> 200, body |-> "supported_partial"] }

\* statuses answered to a checkout request; 0 is a network error or a timeout
RequestStatuses == {200, 201, 300, 404, 500, 0}

EndpointKeys ==
    {"create_checkout", "update_checkout", "complete_checkout", "cancel_checkout",
     "get_checkout"}

Absent == [present |-> FALSE, path |-> << >>]
Advertised(path) == [present |-> TRUE, path |-> path]

\* the endpoints map of a capability document: paths as segment lists, "{id}" the
\* placeholder
EndpointsMap(label) ==
    IF label = "advertised"
      THEN [k \in EndpointKeys |->
              IF k = "create_checkout" THEN Advertised(<<"api", "checkouts">>)
              ELSE IF k = "update_checkout" THEN Advertised(<<"api", "checkouts", "{id}">>)
              ELSE IF k = "complete_checkout"
                THEN Advertised(<<"api", "checkouts", "{id}", "pay">>)
              ELSE IF k = "cancel_checkout"
                THEN Advertised(<<"api", "{id}", "cancel", "{id}">>)
              ELSE Advertised(<<"api", "checkouts", "{id}">>)]
    ELSE IF label = "partial"
      THEN [k \in EndpointKeys |->
              IF k = "complete_checkout" THEN Advertised(<<"pay", "{id}">>)
              ELSE IF k = "get_checkout" THEN Advertised(<<"status">>)
              ELSE Absent]
    ELSE [k \in EndpointKeys |-> Absent]

\* the second argument of each endpoints.get(...)
DefaultPath(key, cid) ==
    IF key = "create_checkout" THEN <<"ucp", "checkout">>
    ELSE IF key = "complete_checkout" THEN <<"ucp", "checkout", cid, "complete">>
    ELSE IF key = "cancel_checkout" THEN <<"ucp", "checkout", cid, "cancel">>
    ELSE <<"ucp", "checkout", cid>>

\* an endpoint lookup that ignores what the merchant advertised
EndpointPathDefaultOnly(caps, key, cid) == DefaultPath(key, cid)

\* self._capabilities.endpoints.get(key, default)
EndpointPath(caps, key, cid) ==
    LET e == EndpointsMap(caps.endpoints)[key]
    IN  IF e.present THEN e.path ELSE DefaultPath(key, cid)

\* endpoint.replace("{id}", checkout_id): every occurrence
ReplaceId(path, cid) ==
    [i \in DOMAIN path |-> IF path[i] = "{id}" THEN cid ELSE path[i]]

\* urljoin(self.base_url, endpoint) for an endpoint that starts with "/": the
\* base's origin followed by the endpoint, whatever path the base has
UrlJoin(base, path) == [origin |-> base.origin, path |-> path]

\* the aiohttp call of each method
HttpMethod(op) ==
    IF op = "update_checkout" THEN "PATCH"
    ELSE IF op = "get_checkout" THEN "GET"
    ELSE "POST"

NoUrl == [method |-> None, origin |-> None, path |-> << >>]

\* the request a checkout method sends: create_checkout joins the endpoint as it
\* is, the others after replace("{id}", checkout_id)
RequestUrl(c, cid) ==
    LET endpoint == EndpointPath(c.caps, c.op, cid)
        path == IF c.op = "create_checkout" THEN endpoint ELSE ReplaceId(endpoint, cid)
        url == UrlJoin(c.base, path)
    IN  [method |-> HttpMethod(c.op), origin |-> url.origin, path |-> url.path]

\* one UCPClient instance: its base URL and cache, the method in flight, where it
\* waits and its checkout_id, the discovery GETs the instance has sent, and for the
\* method in flight or last returned: the requests it sent, the target of its
\* checkout request, the status of the discovery answer and of the checkout answer
\* it got (-1: none) and the value it returned; `second` is the call of another
\* coroutine on the same instance
NoSecondCall == [pc |-> "idle", op |-> None, value |-> None, status |-> -1]

NewClient ==
    [caps |-> NewClientCapabilities, pc |-> "idle", op |-> None, gets |-> 0,
     status |-> -1, value |-> None,
     base |-> [origin |-> "https://shop.example", path |-> << >>],
     id |-> None, sends |-> << >>, url |-> NoUrl, answer |-> -1,
     second |-> NoSecondCall]

ClientMethods ==
    {"discover", "supports_ucp", "create_checkout", "update_checkout",
     "complete_checkout", "cancel_checkout", "get_checkout"}

\* the methods that go through supports_ucp() or are discover() itself
DiscoveringMethods == {"discover", "supports_ucp", "create_checkout"}

\* the method in flight sends its checkout request
ClientSend(c, cid) ==
    [c EXCEPT !.pc = "post", !.id = cid, !.url = RequestUrl(c, cid),
              !.sends = Append(@, c.op)]

\* a create_checkout that posts without looking at supports_ucp()
ClientContinueUnchecked(c) ==
    IF c.op = "discover"
      THEN [c EXCEPT !.pc = "idle", !.value = "capabilities"]
    ELSE IF c.op = "supports_ucp"
      THEN [c EXCEPT !.pc = "idle",
                     !.value = IF SupportsUcpResult(c.caps) THEN "true" ELSE "false"]
    ELSE ClientSend(c, None)

\* what a method does once self._capabilities is decided: discover returns the
\* capabilities, supports_ucp the flag, create_checkout raises or sends its POST
ClientContinue(c) ==
    IF c.op = "discover"
      THEN [c EXCEPT !.pc = "idle", !.value = "capabilities"]
    ELSE IF c.op = "supports_ucp"
      THEN [c EXCEPT !.pc = "idle",
                     !.value = IF SupportsUcpResult(c.caps) THEN "true" ELSE "false"]
    ELSE IF SupportsUcpResult(c.caps)
      THEN ClientSend(c, None)
    ELSE [c EXCEPT !.pc = "idle", !.value = "raised"]

\* UCPClient(merchant_base_url): a new instance takes the place of the old one
ClientConstruct(base) ==
    /\ client.pc = "idle"
    /\ client' = [NewClient EXCEPT !.base = base]
    /\ UNCHANGED clientFrame

\* a caller invokes a method of the instance.  The checkout methods other than
\* create_checkout read self._capabilities.endpoints at once: AttributeError on an
\* instance that has discovered nothing
ClientCall(op) ==
    /\ client.pc = "idle"
    /\ LET c == [client EXCEPT !.op = op, !.status = -1, !.value = None,
                              !.id = None, !.sends = << >>, !.url = NoUrl,
                              !.answer = -1]
           get == op = "discover" \/ SupportsUcpNeedsDiscover(c.caps)
       IN  IF op \in DiscoveringMethods
             THEN IF get
                    THEN /\ client.gets < MaxRequests
                         /\ client' = [c EXCEPT !.pc = "get", !.gets = @ + 1,
                                                !.sends = Append(@, "discover")]
                    ELSE client' = ClientContinue(c)
             ELSE \E cid \in ClientCheckoutIds :
                    IF c.caps.set
                      THEN client' = ClientSend(c, cid)
                      ELSE client' = [c EXCEPT !.id = cid, !.value = "raised"]
    /\ UNCHANGED clientFrame

\* the merchant answers the GET /.well-known/ucp of the method in flight
ClientDiscoveryResponds(ans) ==
    /\ client.pc = "get"
    /\ LET d == Discover(ans)
           c == [client EXCEPT !.status = ans.status]
       IN  IF d.raised
             THEN client' = [c EXCEPT !.pc = "idle", !.value = "raised"]
             ELSE client' = ClientContinue([c EXCEPT !.caps = d.caps])
    /\ UNCHANGED clientFrame

\* the merchant answers the checkout request of the method in flight: a network
\* error and a status raise_for_status() rejects are raised, any other answer's
\* JSON is returned
ClientRequestResponds(status) ==
    /\ client.pc = "post"
    /\ client' = [client EXCEPT
                    !.pc = "idle", !.answer = status,
                    !.value = IF status = 0 \/ RaiseForStatus(status) THEN "raised"
                              ELSE IF client.op = "create_checkout" THEN "checkout"
                              ELSE "json"]
    /\ UNCHANGED clientFrame

\* ---------------------------------------- two callers of one UCPClient instance
\* the first call on a new instance
FirstCall(op) ==
    /\ client.op = None
    /\ ClientCall(op)

\* a new instance once both callers are done with the old one
OverlapConstruct(base) ==
    /\ client.second.pc = "idle"
    /\ ClientConstruct(base)

\* what supports_ucp() / create_checkout() of the second caller do once
\* self._capabilities is decided
SecondContinue(c, status) ==
    [c EXCEPT !.second =
        IF @.op = "supports_ucp"
          THEN [@ EXCEPT !.pc = "idle", !.status = status,
                         !.value = IF SupportsUcpResult(c.caps) THEN "true" ELSE "false"]
        ELSE IF SupportsUcpResult(c.caps)
          THEN [@ EXCEPT !.pc = "post", !.status = status]
        ELSE [@ EXCEPT !.pc = "idle", !.status = status, !.value = "raised"]]

\* another coroutine calls supports_ucp() or create_checkout() on the instance
\* while the first call awaits its discovery answer: `if self._capabilities is
\* None: await self.discover()`
SecondCall(op) ==
    /\ client.pc = "get"
    /\ client.second = NoSecondCall
    /\ LET c == [client EXCEPT !.second.op = op]
       IN  IF SupportsUcpNeedsDiscover(c.caps)
             THEN /\ client.gets < MaxRequests
                  /\ client' = [c EXCEPT !.second.pc = "get", !.gets = @ + 1]
             ELSE client' = SecondContinue(c, -1)
    /\ UNCHANGED clientFrame

\* the merchant answers the GET of the second caller; discover() stores what it got
SecondDiscoveryResponds(ans) ==
    /\ client.second.pc = "get"
    /\ LET d == Discover(ans)
       IN  IF d.raised
             THEN client' = [client EXCEPT !.second.pc = "idle",
                                           !.second.status = ans.status,
                                           !.second.value = "raised"]
             ELSE client' = SecondContinue([client EXCEPT !.caps = d.caps], ans.status)
    /\ UNCHANGED clientFrame

\* the merchant answers the create POST of the second caller
SecondRequestResponds(status) ==
    /\ client.second.pc = "post"
    /\ client' = [client EXCEPT
                    !.second.pc = "idle",
                    !.second.value = IF status = 0 \/ RaiseForStatus(status)
                                       THEN "raised" ELSE "checkout"]
    /\ UNCHANGED clientFrame

\* BrowserAutomation.__init__: no browser, no context; no call yet.  `log` holds
\* the page interactions of the call in flight or last ended, `outcome` how that
\* call ended: "returned" with a result dict or "propagated" with an exception
NewBrowser ==
    [pc |-> "idle", started |-> FALSE, context |-> FALSE, page |-> FALSE,
     todo |-> 0, address |-> FALSE, log |-> << >>,
     outcome |-> None, success |-> FALSE, error |-> None]

\* ------------------------------------------------------ /payment-agent routes
\* the clients that send requests
Users == {"alice", "bob"}

\* the cart and checkout of a PaymentAgent as the routes see them: the cart as the
\* list of who added each entry, the checkout as its id (0: None)
NewAgent == [cart |-> << >>, checkout |-> 0]

NoResponse ==
    [route |-> None, outcome |-> None, status |-> 0, items |-> << >>,
     checkout |-> 0]

\* a request that is not in flight
NoRequest == [pc |-> "idle", agent |-> 0]

\* routes.py at import: _agent_instance = None (0), no PaymentAgent constructed
NewServer ==
    [instance |-> 0, agents |-> << >>, req |-> [u \in Users |-> NoRequest],
     http |-> NoResponse]

\* the routes whose handler raises HTTPException(400) for a result without success
CheckedRoutes ==
    {"search-products", "cart/add", "checkout/create", "checkout/complete",
     "order/status"}

\* what the try block of a handler ends with: a response, the HTTPException(400)
\* it raises itself, or another exception
TryOutcome(route, outcome) ==
    IF outcome = "raises" THEN "Exception"
    ELSE IF outcome = "failure" /\ route \in CheckedRoutes THEN "HTTPException"
    ELSE "response"

\* except clauses that catch everything first
ExceptClausesGenericFirst(route) == <<"Exception", "HTTPException">>

\* the except clauses of a handler, in source order
ExceptClauses(route) ==
    IF route \in CheckedRoutes THEN <<"HTTPException", "Exception">>
    ELSE <<"Exception">>

\* isinstance: HTTPException is a subclass of Exception
Catches(clause, raised) == clause = "Exception" \/ clause = raised

\* the first except clause that catches: `except HTTPException: raise` keeps the
\* status, `except Exception` raises HTTPException(500)
HandlerStatus(route, outcome) ==
    LET raised == TryOutcome(route, outcome)
        clauses == ExceptClauses(route)
        hits == {i \in DOMAIN clauses : Catches(clauses[i], raised)}
        first == CHOOSE i \in hits : \A j \in hits : i <= j
    IN  IF raised = "response" THEN 200
        ELSE IF hits = {} THEN 400
        ELSE IF clauses[first] = "HTTPException" THEN 400
        ELSE 500

\* get_agent: the instance the global holds (0: None, a new one is constructed)
GetAgent(srv) == srv.instance

\* a request arrives; its get_agent dependency, a plain function run on a worker
\* thread, reads the global
GetAgentCheck(u) ==
    /\ server.req[u].pc = "idle"
    /\ LET i == GetAgent(server)
       IN  server' = [server EXCEPT
                        !.req[u] = IF i = 0 THEN [pc |-> "constructing", agent |-> 0]
                                   ELSE [pc |-> "ready", agent |-> i]]
    /\ UNCHANGED serverFrame

\* _agent_instance = PaymentAgent()
GetAgentConstruct(u) ==
    /\ server.req[u].pc = "constructing"
    /\ LET agents == Append(server.agents, NewAgent)
       IN  server' = [server EXCEPT !.agents = agents, !.instance = Len(agents),
                                    !.req[u] = [pc |-> "returning", agent |-> 0]]
    /\ UNCHANGED serverFrame

\* return _agent_instance: the global as it is read now
GetAgentReturn(u) ==
    /\ server.req[u].pc = "returning"
    /\ server' = [server EXCEPT !.req[u] = [pc |-> "ready", agent |-> server.instance]]
    /\ UNCHANGED serverFrame

\* the handler of a request answers; `agents` is what it leaves behind
Respond(u, route, outcome, agents, items, checkout) ==
    server' = [server EXCEPT
                 !.agents = agents, !.req[u] = NoRequest,
                 !.http = [route |-> route, outcome |-> outcome,
                           status |-> HandlerStatus(route, outcome),
                           items |-> items, checkout |-> checkout]]

\* POST /search-products and POST /order/status: no agent state involved
RouteStateless(u, route, outcome) ==
    /\ server.req[u].pc = "ready"
    /\ Respond(u, route, outcome, server.agents, << >>, 0)
    /\ UNCHANGED serverFrame

\* POST /cart/add
RouteAddToCart(u, outcome) ==
    /\ server.req[u].pc = "ready"
    /\ LET a == server.req[u].agent
       IN  IF outcome = "success"
             THEN /\ Len(server.agents[a].cart) < MaxCart
                  /\ Respond(u, "cart/add", outcome,
                             [server.agents EXCEPT ![a].cart = Append(@, u)], << >>, 0)
             ELSE Respond(u, "cart/add", outcome, server.agents, << >>, 0)
    /\ UNCHANGED serverFrame

\* GET /cart
RouteViewCart(u, outcome) ==
    /\ server.req[u].pc = "ready"
    /\ LET a == server.req[u].agent
       IN  Respond(u, "cart", outcome, server.agents,
                   IF outcome = "success" THEN server.agents[a].cart ELSE << >>, 0)
    /\ UNCHANGED serverFrame

\* DELETE /cart/clear
RouteClearCart(u) ==
    /\ server.req[u].pc = "ready"
    /\ LET a == server.req[u].agent
       IN  Respond(u, "cart/clear", "success",
                   [server.agents EXCEPT ![a].cart = << >>], << >>, 0)
    /\ UNCHANGED serverFrame

\* POST /checkout/create: a successful _create_checkout on the UCP or Stripe branch
\* stores session `id`; "raises" is a stored session the response cannot be built from
RouteCreateCheckout(u, outcome, id) ==
    /\ server.req[u].pc = "ready"
    /\ LET a == server.req[u].agent
       IN  IF outcome = "failure"
             THEN Respond(u, "checkout/create", outcome, server.agents, << >>, 0)
             ELSE Respond(u, "checkout/create", outcome,
                          [server.agents EXCEPT ![a].checkout = id], << >>,
                          IF outcome = "success" THEN id ELSE 0)
    /\ UNCHANGED serverFrame

\* POST /checkout/complete: the handler acts on the agent's current checkout; a
\* success either clears cart and checkout (UCP branch) or leaves them (Stripe)
RouteCompleteCheckout(u, confirm, outcome, clears) ==
    /\ server.req[u].pc = "ready"
    /\ LET a == server.req[u].agent
           co == server.agents[a].checkout
       IN  IF ~confirm \/ co = 0 \/ outcome # "success"
             THEN Respond(u, "checkout/complete", "failure", server.agents, << >>,
                          IF confirm THEN co ELSE 0)
             ELSE Respond(u, "checkout/complete", "success",
                          IF clears THEN [server.agents EXCEPT ![a] = NewAgent]
                                    ELSE server.agents,
                          << >>, co)
    /\ UNCHANGED serverFrame

\* ------------------------------------------------- /3d custom boyfriend jobs
\* boyfriend ids: uuid4 gives each upload an id no earlier upload or file has
JobIds == 1..MaxJobs

\* a model left in models/custom by an earlier run of the real generator
OldModels == {0}

\* no entry for an id in job_statuses
NoEntry == [status |-> "absent", progress |-> 0]

NoTask == [pc |-> "none", stage |-> 0]

NoJobResponse == [route |-> None, code |-> 0, job |-> 0, status |-> None, progress |-> 0]

\* routes.py at import: job_statuses = {}
NewJobs ==
    [next |-> 1, statuses |-> [j \in JobIds |-> NoEntry], task |-> [j \in JobIds |-> NoTask],
     files |-> OldModels, http |-> NoJobResponse]

\* a stage list whose progress goes back
StagesOutOfOrder == <<10, 60, 20, 90, 100>>

\* the progress the mock generation reports after each sleep
Stages == <<10, 20, 60, 90, 100>>

\* job_statuses[id].update(...) where the entry exists
UpdateStatus(statuses, j, status, progress) ==
    IF statuses[j] = NoEntry THEN statuses
    ELSE [statuses EXCEPT ![j] = [status |-> status, progress |-> progress]]

\* POST /boyfriends/custom/generate
GenerateCustomBoyfriend(valid, async_mode) ==
    /\ IF ~valid
         THEN jobs' = [jobs EXCEPT !.http = [NoJobResponse EXCEPT !.route = "generate",
                                                                  !.code = 400]]
         ELSE /\ jobs.next \in JobIds
              /\ LET id == jobs.next
                 IN  IF async_mode
                       THEN jobs' = [jobs EXCEPT
                               !.next = id + 1,
                               !.statuses[id] = [status |-> "processing", progress |-> 0],
                               !.task[id] = [pc |-> "scheduled", stage |-> 0],
                               !.http = [route |-> "generate", code |-> 200, job |-> id,
                                         status |-> "processing", progress |-> 0]]
                       ELSE jobs' = [jobs EXCEPT
                               !.next = id + 1,
                               !.http = [route |-> "generate", code |-> 200, job |-> id,
                                         status |-> "sync", progress |-> 0]]
    /\ UNCHANGED jobsFrame

\* generate_boyfriend_mock_async starts after the response and sleeps
TaskStart(j) ==
    /\ jobs.task[j].pc = "scheduled"
    /\ jobs' = [jobs EXCEPT !.task[j] = [pc |-> "sleeping", stage |-> 1]]
    /\ UNCHANGED jobsFrame

\* a sleep ends: the stage is recorded; after the last stage the job is completed
\* and the task ends, with no await in between
TaskWake(j) ==
    /\ jobs.task[j].pc = "sleeping"
    /\ LET i == jobs.task[j].stage
           staged == UpdateStatus(jobs.statuses, j, jobs.statuses[j].status, Stages[i])
       IN  IF i < Len(Stages)
             THEN jobs' = [jobs EXCEPT !.statuses = staged,
                                       !.task[j] = [pc |-> "sleeping", stage |-> i + 1]]
             ELSE jobs' = [jobs EXCEPT !.statuses = UpdateStatus(staged, j, "completed", 100),
                                       !.task[j] = [pc |-> "done", stage |-> i]]
    /\ UNCHANGED jobsFrame

\* GET /status/{job_id}
GetJobStatus(id) ==
    /\ jobs' = [jobs EXCEPT !.http =
                  IF id \in JobIds /\ jobs.statuses[id] # NoEntry
                    THEN [route |-> "status", code |-> 200, job |-> id,
                          status |-> jobs.statuses[id].status,
                          progress |-> jobs.statuses[id].progress]
                    ELSE [route |-> "status", code |-> 200, job |-> id,
                          status |-> "completed", progress |-> 100]]
    /\ UNCHANGED jobsFrame

\* DELETE /boyfriends/custom/{boyfriend_id}: 404 unless a model file exists
DeleteCustomBoyfriend(id) ==
    /\ IF id \notin jobs.files
         THEN jobs' = [jobs EXCEPT !.http = [NoJobResponse EXCEPT !.route = "delete",
                                                                  !.code = 404, !.job = id]]
         ELSE jobs' = [jobs EXCEPT
                 !.files = @ \ {id},
                 !.statuses = [j \in JobIds |-> IF j = id THEN NoEntry ELSE @[j]],
                 !.http = [NoJobResponse EXCEPT !.route = "delete", !.code = 200,
                                                !.job = id]]
    /\ UNCHANGED jobsFrame

\* -------------------------------------------------------- PaymentAgent.chat
\* the coroutines that call chat() on the agent
ChatCallers == {"c1", "c2"}

\* what the model call of a chat() does: it answers with text, it answers with a
\* function call, or it raises (so does reading a candidate that is not there)
ModelAnswers == {"text", "function_call", "raises"}

NoChatRet == [caller |-> None, text |-> None, raised |-> FALSE, entry |-> 0]

\* __init__: conversation_history = [].  `started` counts the chat() calls,
\* `overlapped` says whether one ever started while another was in progress
NewChats ==
    [history |-> << >>, pc |-> [c \in ChatCallers |-> "idle"], started |-> 0,
     overlapped |-> FALSE, ret |-> NoChatRet]

HistoryEntry(role, content, c) == [role |-> role, content |-> content, of |-> c]

\* a return that records no assistant entry
ChatRecordNothing(history, content, c) == history

\* conversation_history.append({"role": "assistant", "content": ...})
ChatRecord(history, content, c) == Append(history, HistoryEntry("assistant", content, c))

\* the call records the reply (response.text) or, from except Exception, the
\* "I encountered an error" message, and returns that text
ChatReturn(ch, c, content) ==
    LET history == ChatRecord(ch.history, content, c)
    IN  [ch EXCEPT !.history = history, !.pc[c] = "idle",
                   !.ret = [caller |-> c, text |-> content, raised |-> FALSE,
                            entry |-> Len(history)]]

\* chat() up to its return or to the awaited tool: the user entry, the prompt,
\* start_chat and the first send_message
ChatStart(c, answer) ==
    /\ chats.pc[c] = "idle"
    /\ chats.started < MaxChats
    /\ LET ch == [chats EXCEPT
                    !.history = Append(@, HistoryEntry("user", "message", c)),
                    !.started = @ + 1,
                    !.overlapped = @ \/ \E d \in ChatCallers : chats.pc[d] # "idle"]
       IN  chats' = IF answer = "text" THEN ChatReturn(ch, c, "reply")
                    ELSE IF answer = "raises" THEN ChatReturn(ch, c, "error")
                    ELSE [ch EXCEPT !.pc[c] = "tool"]
    /\ UNCHANGED chatFrame

\* the awaited _handle_function_call ends: the tool raised, or it returned and
\* the second send_message answers with text or raises
ChatToolReturns(c, tool_raises, answer) ==
    /\ chats.pc[c] = "tool"
    /\ chats' = IF ~tool_raises /\ answer = "text" THEN ChatReturn(chats, c, "reply")
                ELSE ChatReturn(chats, c, "error")
    /\ UNCHANGED chatFrame

\* ------------------------------------------------ /api/video-call/live
\* the WebSocket connections of the clients
Connections == {"w1", "w2"}

\* no handler runs for a connection
NoConnection ==
    [pc |-> "none", peer |-> "none", listener |-> "none", frontend |-> "none",
     registered |-> FALSE]

\* call_manager = VideoCallManager(): active_sessions = {}
NewVideo == [w \in Connections |-> NoConnection]

\* the finally block of the handler: close_session removes the entry, then the
\* socket is closed
HandlerEnds(v) ==
    [v EXCEPT !.pc = "ended", !.listener = "none", !.frontend = "none",
              !.registered = FALSE]

\* a client connects: accept, welcome message, create_session; without a Gemini
\* session the handler closes the socket and returns, otherwise it sends the
\* greeting and waits for Gemini's answer
VideoConnect(w, session_ok) ==
    /\ video[w].pc \in {"none", "ended"}
    /\ LET v == [NoConnection EXCEPT !.peer = "connected"]
       IN  video' = [video EXCEPT ![w] =
                       IF session_ok
                         THEN [v EXCEPT !.pc = "greeting", !.registered = TRUE]
                         ELSE HandlerEnds(v)]
    /\ UNCHANGED videoFrame

\* the client closes its side of the WebSocket
ClientDisconnects(w) ==
    /\ video[w].peer = "connected"
    /\ video[w].pc \in {"greeting", "running"}
    /\ video' = [video EXCEPT ![w].peer = "gone"]
    /\ UNCHANGED videoFrame

\* Gemini sends a message, or its connection fails (`closes`).  The handler
\* forwards a message to the client; `send_raises` says whether a send to a client
\* that is gone raises.  In the greeting loop an exception ends the handler and
\* turn_complete starts the two tasks; in listen_to_gemini an exception or the
\* end of the turn ends the task
GeminiSends(w, turn_complete, closes, send_raises) ==
    /\ LET v == video[w]
           raised == closes \/ (v.peer = "gone" /\ send_raises)
       IN  \/ /\ v.pc = "greeting"
              /\ video' = [video EXCEPT ![w] =
                              IF raised THEN HandlerEnds(v)
                              ELSE IF turn_complete
                                THEN [v EXCEPT !.pc = "running", !.listener = "waiting",
                                               !.frontend = "waiting"]
                              ELSE v]
           \/ /\ v.pc = "running" /\ v.listener = "waiting"
              /\ video' = [video EXCEPT ![w].listener =
                              IF raised \/ turn_complete THEN "done" ELSE "waiting"]
    /\ UNCHANGED videoFrame

\* handle_frontend_messages gets a message of a connected client: it passes it to
\* Gemini and goes on, or an error outside the audio branch ends the loop
FrontendMessage(w, error) ==
    /\ video[w].pc = "running" /\ video[w].frontend = "waiting"
    /\ video[w].peer = "connected"
    /\ video' = [video EXCEPT ![w].frontend = IF error THEN "done" ELSE "waiting"]
    /\ UNCHANGED videoFrame

\* websocket.receive_json() of a client that is gone raises WebSocketDisconnect:
\* the loop breaks, the silence task is cancelled, the task ends
FrontendNoticesDisconnect(w) ==
    /\ video[w].pc = "running" /\ video[w].frontend = "waiting"
    /\ video[w].peer = "gone"
    /\ video' = [video EXCEPT ![w].frontend = "done"]
    /\ UNCHANGED videoFrame

\* asyncio.gather returns once both tasks have ended; the handler leaves the
\* Gemini session and runs its finally block
GatherReturns(w) ==
    /\ video[w].pc = "running"
    /\ video[w].listener = "done" /\ video[w].frontend = "done"
    /\ video' = [video EXCEPT ![w] = HandlerEnds(@)]
    /\ UNCHANGED videoFrame

\* --------------------------------------------------------- PaymentAgent state
NoCheckout ==
    [id |-> 0, protocol |-> None, merchant_url |-> None, amount_total |-> 0,
     merchant_account_id |-> None, url |-> None, via |-> None]

\* a check that takes None for a checkout
HasCheckoutAlways(co) == TRUE

\* Python truthiness of self.current_checkout
HasCheckout(co) == co # NoCheckout

IdleCall ==
    [pc |-> "idle", merchant_url |-> None, address |-> None, caps |-> CapsNone,
     gets |-> 0, discovered |-> FALSE, strategies |-> {}, items |-> << >>,
     cart_at_start |-> << >>]

\* a handler's result, with the bookkeeping of the call that produced it
NoRet ==
    [op |-> None, success |-> FALSE, text |-> None, protocol |-> None,
     checkout_id |-> 0, confirm |-> FALSE, count |-> 0,
     gets |-> 0, discovered |-> FALSE, supports |-> FALSE, strategies |-> {},
     via |-> None, token |-> FALSE, amount |-> 0, destination |-> None,
     answer |-> None, retry |-> FALSE]

\* one request leaving the process: its kind, the handler and its confirm flag
Request(kind, op, confirm) == [kind |-> kind, op |-> op, confirm |-> confirm]

Init ==
    /\ enable_browser_fallback \in BOOLEAN
    /\ current_cart = << >>
    /\ current_checkout = NoCheckout
    /\ call = IdleCall
    /\ ret = NoRet
    /\ nsessions = 0
    /\ sent = {}
    /\ seenKeys = {}
    /\ charges = [c \in CheckoutIds |-> 0]
    /\ client = NewClient
    /\ browser = NewBrowser
    /\ server = NewServer
    /\ jobs = NewJobs
    /\ chats = NewChats
    /\ video = NewVideo

\* ------------------------------------------------------------------ cart
\* an add-to-cart that raises the quantity of an entry with the same product_id
AddToCartMerging(p, q) ==
    /\ Len(current_cart) < MaxCart
    /\ current_cart' =
          IF \E i \in DOMAIN current_cart : current_cart[i].product_id = p
            THEN [i \in DOMAIN current_cart |->
                    IF current_cart[i].product_id = p
                      THEN [current_cart[i] EXCEPT !.quantity = @ + q]
                      ELSE current_cart[i]]
            ELSE Append(current_cart, [product_id |-> p, quantity |-> q])
    /\ ret' = [NoRet EXCEPT !.op = "add_to_cart", !.success = TRUE,
                            !.text = "Added item(s) to cart",
                            !.count = Len(current_cart')]
    /\ sent' = {}
    /\ UNCHANGED << agentFrame, enable_browser_fallback, current_checkout, call, nsessions,
                    seenKeys, charges >>

\* PaymentAgent._add_to_cart
AddToCart(p, q) ==
    /\ Len(current_cart) < MaxCart
    /\ current_cart' = Append(current_cart, [product_id |-> p, quantity |-> q])
    /\ ret' = [NoRet EXCEPT !.op = "add_to_cart", !.success = TRUE,
                            !.text = "Added item(s) to cart",
                            !.count = Len(current_cart')]
    /\ sent' = {}
    /\ UNCHANGED << agentFrame, enable_browser_fallback, current_checkout, call, nsessions,
                    seenKeys, charges >>

\* PaymentAgent._view_cart
ViewCart ==
    /\ ret' = [NoRet EXCEPT !.op = "view_cart", !.success = TRUE,
                            !.count = Len(current_cart)]
    /\ sent' = {}
    /\ UNCHANGED << agentFrame, enable_browser_fallback, current_cart, current_checkout, call,
                    nsessions, seenKeys, charges >>

\* a clear that also drops the checkout
ClearCartAndCheckout ==
    /\ current_cart' = << >>
    /\ current_checkout' = NoCheckout
    /\ ret' = [NoRet EXCEPT !.op = "clear_cart", !.success = TRUE,
                            !.text = "Cart cleared successfully"]
    /\ sent' = {}
    /\ UNCHANGED << agentFrame, enable_browser_fallback, call, nsessions, seenKeys,
                    charges >>

\* routes.clear_cart: agent.current_cart = []
ClearCart ==
    /\ current_cart' = << >>
    /\ ret' = [NoRet EXCEPT !.op = "clear_cart", !.success = TRUE,
                            !.text = "Cart cleared successfully"]
    /\ sent' = {}
    /\ UNCHANGED << agentFrame, enable_browser_fallback, current_checkout, call, nsessions,
                    seenKeys, charges >>

\* ------------------------------------------------------- _create_checkout
\* a branch choice that runs the browser whatever enable_browser_fallback says
ChooseStrategyAlwaysBrowser(supports, fallback) ==
    IF supports THEN "ucp" ELSE "browser"

\* the branch _create_checkout takes once supports_ucp() has returned
ChooseStrategy(supports, fallback) ==
    IF supports THEN "ucp"
    ELSE IF fallback THEN "browser"
    ELSE "stripe"

\* [LineItem(...) for item in self.current_cart]: a new list built from the cart
LineItems(cart) == cart

\* Address(**shipping_address): pydantic rejects a dict without the required keys
AddressRaises(address) == address = "invalid"

\* the JSON a merchant answers to the create POST for session `id`
MerchantCheckout(id, m, shape) ==
    [id |-> id,
     protocol |-> IF shape = "no_protocol" THEN None ELSE "UCP",
     merchant_url |-> IF shape = "no_merchant_url" THEN None ELSE m,
     amount_total |-> SessionTotal(id),
     merchant_account_id |-> AccountOf(m),
     url |-> None,
     via |-> "ucp"]

\* StripeTools.create_checkout_session: the dict built from the Stripe session
StripeSession ==
    [id |-> 1000, protocol |-> None, merchant_url |-> None,
     amount_total |-> 500, merchant_account_id |-> None,
     url |-> "https://checkout.stripe.com/pay", via |-> "stripe"]

\* what a finished _create_checkout call reports, with the call's bookkeeping
CreateRet(c, success, text) ==
    [NoRet EXCEPT !.op = "create_checkout", !.success = success, !.text = text,
                  !.gets = c.gets, !.discovered = c.discovered,
                  !.supports = SupportsUcpResult(c.caps),
                  !.strategies = c.strategies]

\* routes.create_checkout for a result with success: protocol is
\* result.get("protocol", "unknown"), checkout_id is
\* result.get("checkout", {}).get("id", "") (0: the empty string)
CreateCheckoutResponse(result) ==
    [success |-> TRUE,
     protocol |-> IF result.protocol = None THEN "unknown" ELSE result.protocol,
     checkout_id |-> result.checkout_id]

\* the Stripe-hosted branch: one synchronous Stripe request, then the assignment
StripeBranch(c) ==
    LET c1 == [c EXCEPT !.strategies = @ \cup {"stripe"}]
        session == StripeSession
    IN  /\ sent' = {Request("stripe_session", "create_checkout", FALSE)}
        /\ call' = IdleCall
        /\ \E ok \in BOOLEAN :    \* Stripe creates the session, or raises StripeError
             IF ok
               THEN /\ current_checkout' = session
                    /\ ret' = [CreateRet(c1, TRUE, None) EXCEPT
                                  !.protocol = "Stripe Checkout",
                                  !.checkout_id = session.id]
               ELSE /\ ret' = CreateRet(c1, FALSE,
                                        "Stripe checkout session creation failed")
                    /\ UNCHANGED current_checkout

\* the UCP branch up to the create POST (UCPClient.create_checkout re-checks
\* supports_ucp(), which answers from the cache)
UcpBranch(c) ==
    IF AddressRaises(c.address)
      THEN /\ call' = IdleCall
           /\ ret' = CreateRet(c, FALSE, "Address validation error")
           /\ sent' = {}
           /\ UNCHANGED current_checkout
    ELSE IF SupportsUcpNeedsDiscover(c.caps)
      THEN /\ call' = [c EXCEPT !.pc = "discover", !.gets = @ + 1]
           /\ sent' = {Request("discovery_get", "create_checkout", FALSE)}
           /\ ret' = NoRet
           /\ UNCHANGED current_checkout
    ELSE IF ~SupportsUcpResult(c.caps)
      THEN /\ call' = IdleCall
           /\ ret' = CreateRet(c, FALSE, "Merchant does not support UCP")
           /\ sent' = {}
           /\ UNCHANGED current_checkout
    ELSE /\ call' = [c EXCEPT !.pc = "ucp_post", !.strategies = @ \cup {"ucp"},
                              !.address = None, !.items = LineItems(current_cart)]
         /\ sent' = {Request("create_post", "create_checkout", FALSE)}
         /\ ret' = NoRet
         /\ UNCHANGED current_checkout

\* the browser branch up to the awaited automate_checkout
BrowserBranch(c) ==
    /\ call' = [c EXCEPT !.pc = "browser", !.strategies = @ \cup {"browser"},
                         !.address = None, !.items = current_cart]
    /\ ret' = NoRet
    /\ sent' = {}
    /\ UNCHANGED current_checkout

\* _create_checkout from the return of supports_ucp() to its next suspension or
\* its return
AfterSupportsUcp(c) ==
    LET strategy == ChooseStrategy(SupportsUcpResult(c.caps), enable_browser_fallback)
    IN  IF strategy = "ucp" THEN UcpBranch(c)
        ELSE IF strategy = "browser" THEN BrowserBranch(c)
        ELSE StripeBranch(c)

\* _create_checkout up to its first suspension: UCPClient(merchant_url), then
\* supports_ucp() sends the discovery GET; `noted` is kept in the call as the
\* cart it started with
CreateCheckoutStartWith(m, addr, noted) ==
    /\ call.pc = "idle"
    /\ LET c == [IdleCall EXCEPT !.merchant_url = m, !.address = addr,
                                 !.caps = NewClientCapabilities,
                                 !.cart_at_start = noted]
       IN  IF SupportsUcpNeedsDiscover(c.caps)
             THEN /\ call' = [c EXCEPT !.pc = "discover", !.gets = 1]
                  /\ sent' = {Request("discovery_get", "create_checkout", FALSE)}
                  /\ ret' = NoRet
                  /\ UNCHANGED current_checkout
             ELSE AfterSupportsUcp(c)
    /\ UNCHANGED << agentFrame, enable_browser_fallback, current_cart, nsessions, seenKeys,
                    charges >>

\* PaymentAgent._create_checkout(merchant_url, ..., shipping_address)
CreateCheckoutStart(m, addr) == CreateCheckoutStartWith(m, addr, << >>)

\* the same call, with the cart of the moment it starts noted
CreateCheckoutTracked(m, addr) == CreateCheckoutStartWith(m, addr, current_cart)

\* the discovery answer arrives: discover() caches or raises, supports_ucp() returns
DiscoveryResponds(ans) ==
    /\ call.pc = "discover"
    /\ LET d == Discover(ans)
       IN  IF d.raised
             THEN /\ call' = IdleCall
                  /\ ret' = CreateRet(call, FALSE, d.error)
                  /\ sent' = {}
                  /\ UNCHANGED current_checkout
             ELSE AfterSupportsUcp([call EXCEPT !.caps = d.caps, !.discovered = TRUE])
    /\ UNCHANGED << agentFrame, enable_browser_fallback, current_cart, nsessions, seenKeys,
                    charges >>

\* the merchant answers the create POST: 2xx with the session's JSON, or a failure
UcpCreateResponds(ok, shape) ==
    /\ call.pc = "ucp_post"
    /\ call' = IdleCall
    /\ sent' = {}
    /\ IF ok
         THEN LET checkout == MerchantCheckout(nsessions + 1, call.merchant_url, shape)
              IN  /\ nsessions < MaxCheckouts
                  /\ nsessions' = nsessions + 1
                  /\ current_checkout' = checkout
                  /\ ret' = [CreateRet(call, TRUE, None) EXCEPT
                                !.protocol = "UCP", !.checkout_id = checkout.id]
         ELSE /\ ret' = CreateRet(call, FALSE, "Create checkout failed")
              /\ UNCHANGED << nsessions, current_checkout >>
    /\ UNCHANGED << agentFrame, enable_browser_fallback, current_cart, seenKeys, charges >>

\* ---------------------------------------------------- BrowserAutomation
\* what the merchant's web site shows to the selector heuristics
Site(r, a, c, s, p, l) ==
    [reachable |-> r, add_button |-> a, checkout_button |-> c,
     saved_payment |-> s, place_button |-> p, confirm_loads |-> l]

\* one site per step at which the flow can stop, and one that lets it through
Sites ==
    { Site(FALSE, FALSE, FALSE, FALSE, FALSE, FALSE),
      Site(TRUE, FALSE, TRUE, TRUE, TRUE, TRUE),
      Site(TRUE, TRUE, FALSE, FALSE, FALSE, FALSE),
      Site(TRUE, TRUE, TRUE, FALSE, FALSE, FALSE),
      Site(TRUE, TRUE, TRUE, TRUE, FALSE, FALSE),
      Site(TRUE, TRUE, TRUE, TRUE, TRUE, FALSE),
      Site(TRUE, TRUE, TRUE, TRUE, TRUE, TRUE) }

BrowserResult(success, error, clicked) ==
    [success |-> success, error |-> error, clicked |-> clicked]

\* BrowserAutomation._complete_order: the first visible control is clicked; when the
\* wait for the confirmation page raises, the bare except moves on to the next
\* selector and the loop ends without a result
CompleteOrder(site) ==
    IF ~site.place_button
      THEN BrowserResult(FALSE, "Could not find order completion button", FALSE)
    ELSE IF site.confirm_loads
      THEN BrowserResult(TRUE, None, TRUE)
    ELSE BrowserResult(FALSE, "Could not find order completion button", TRUE)

\* BrowserAutomation._handle_payment: only a saved payment method is automated
HandlePayment(site) ==
    IF site.saved_payment
      THEN BrowserResult(TRUE, None, FALSE)
      ELSE BrowserResult(FALSE, "No automatable payment method found", FALSE)

\* BrowserAutomation.automate_checkout
AutomateCheckout(site, items) ==
    IF ~site.reachable
      THEN BrowserResult(FALSE, "navigation failed", FALSE)
    ELSE IF items # << >> /\ ~site.add_button
      THEN BrowserResult(FALSE, "Failed to add item to cart", FALSE)
    ELSE IF ~site.checkout_button
      THEN BrowserResult(FALSE, "Could not find checkout button", FALSE)
    ELSE IF ~HandlePayment(site).success
      THEN HandlePayment(site)
    ELSE CompleteOrder(site)

\* the awaited automate_checkout ends and _create_checkout returns its result
BrowserAutomationReturns(site) ==
    /\ call.pc = "browser"
    /\ LET result == AutomateCheckout(site, call.items)
       IN  /\ sent' = IF result.clicked
                        THEN {Request("place_order_click", "create_checkout", FALSE)}
                        ELSE {}
           /\ ret' = CreateRet(call, result.success, result.error)
    /\ call' = IdleCall
    /\ UNCHANGED << agentFrame, enable_browser_fallback, current_cart, current_checkout, nsessions,
                    seenKeys, charges >>

\* ------------------------------------- BrowserAutomation, step by step
\* the call ends with a result dict once the finally block has run
BrowserReturn(b, success, error) ==
    [b EXCEPT !.pc = "finally", !.outcome = "returned", !.success = success,
              !.error = error]

\* where the flow goes once the cart items are added
AfterItems(b) == [b EXCEPT !.pc = "checkout"]

\* automate_checkout is called: start() when there is no browser, then new_page();
\* both are outside the try block
BrowserCall(n, address, launches) ==
    /\ browser.pc = "idle"
    /\ LET b == [browser EXCEPT !.todo = n, !.address = address, !.log = << >>,
                                !.outcome = None, !.success = FALSE, !.error = None]
       IN  IF ~browser.started /\ ~launches
             THEN browser' = [b EXCEPT !.outcome = "propagated",
                                       !.error = "browser launch failed"]
             ELSE browser' = [b EXCEPT !.started = TRUE, !.context = TRUE,
                                       !.page = TRUE, !.pc = "goto"]
    /\ UNCHANGED browserFrame

\* page.goto(merchant_url)
BrowserGoto(reachable) ==
    /\ browser.pc = "goto"
    /\ browser' = IF ~reachable
                    THEN [browser EXCEPT !.pc = "except", !.error = "navigation failed"]
                  ELSE IF browser.todo = 0 THEN AfterItems(browser)
                  ELSE [browser EXCEPT !.pc = "add"]
    /\ UNCHANGED browserFrame

\* one round of the loop over cart_items: _add_to_cart_generic
BrowserAddItem(found) ==
    /\ browser.pc = "add"
    /\ browser' =
         IF ~found
           THEN BrowserReturn(browser, FALSE, "Failed to add item to cart")
         ELSE LET b == [browser EXCEPT !.todo = @ - 1, !.log = Append(@, "add")]
              IN  IF b.todo = 0 THEN AfterItems(b) ELSE b
    /\ UNCHANGED browserFrame

\* _navigate_to_checkout, then _fill_shipping_address when an address was given;
\* _fill_field swallows what goes wrong with a field
BrowserNavigate(found) ==
    /\ browser.pc = "checkout"
    /\ browser' =
         IF ~found
           THEN [browser EXCEPT !.pc = "except",
                                !.error = "Could not find checkout button"]
           ELSE [browser EXCEPT !.pc = "payment",
                    !.log = IF browser.address
                              THEN Append(Append(@, "checkout"), "shipping")
                              ELSE Append(@, "checkout")]
    /\ UNCHANGED browserFrame

\* a payment step that goes on to the order whatever it found
BrowserHandlePaymentAnyway(saved) ==
    /\ browser.pc = "payment"
    /\ browser' = [browser EXCEPT !.pc = "place",
                      !.log = IF saved THEN Append(@, "payment") ELSE @]
    /\ UNCHANGED browserFrame

\* _handle_payment: checks the first saved payment method, or gives up
BrowserHandlePayment(saved) ==
    /\ browser.pc = "payment"
    /\ browser' =
         IF saved
           THEN [browser EXCEPT !.pc = "place", !.log = Append(@, "payment")]
           ELSE BrowserReturn(browser, FALSE, "No automatable payment method found")
    /\ UNCHANGED browserFrame

\* _complete_order: clicks the first visible control and waits for the confirmation
\* page; when that wait raises, the bare except goes on to the next selector and
\* the loop ends without a result
BrowserCompleteOrder(site) ==
    /\ browser.pc = "place"
    /\ LET result == CompleteOrder(site)
           b == IF result.clicked
                  THEN [browser EXCEPT !.log = Append(@, "place")]
                  ELSE browser
       IN  browser' = BrowserReturn(b, result.success, result.error)
    /\ UNCHANGED browserFrame

\* except Exception: page.screenshot(...) and the structured error; a screenshot
\* that raises leaves the except block with that exception
BrowserExcept(screenshot_ok) ==
    /\ browser.pc = "except"
    /\ browser' = IF screenshot_ok
                    THEN BrowserReturn(browser, FALSE, browser.error)
                    ELSE [browser EXCEPT !.pc = "finally", !.outcome = "propagated",
                                         !.error = "screenshot failed"]
    /\ UNCHANGED browserFrame

\* finally: await page.close(); the call ends
BrowserFinally ==
    /\ browser.pc = "finally"
    /\ browser' = [browser EXCEPT !.pc = "idle", !.page = FALSE]
    /\ UNCHANGED browserFrame

\* BrowserAutomation.stop(): closes the context and the browser
BrowserStop ==
    /\ browser.pc = "idle"
    /\ browser.started
    /\ browser' = [browser EXCEPT !.started = FALSE, !.context = FALSE]
    /\ UNCHANGED browserFrame

\* ----------------------------------------------------- _complete_checkout
CompleteRet(confirm, success, text) ==
    [NoRet EXCEPT !.op = "complete_checkout", !.confirm = confirm,
                  !.success = success, !.text = text, !.via = current_checkout.via]

\* the merchant's completion handler: one charge per Idempotency-Key it has not
\* processed before; "lost" is a charge whose answer never reaches the client
MerchantCharges(key, answer) == key \notin seenKeys /\ answer \in {"2xx", "lost"}

CompletionAnswers == {"2xx", "5xx", "lost"}

\* str(uuid.uuid4()): a key no earlier request carried
FreshKey == Cardinality(seenKeys) + 1

\* the UCP branch of _complete_checkout once the token exists:
\* UCPClient(merchant_url).complete_checkout(checkout_id, token, str(uuid.uuid4()))
UcpCompleteWith(caps, cid, confirm) ==
  \E answer \in CompletionAnswers :
    LET key == FreshKey
        token == Request("token", "complete_checkout", confirm)
        base == [CompleteRet(confirm, FALSE, None) EXCEPT
                    !.checkout_id = cid, !.token = TRUE, !.answer = answer,
                    !.retry = (ret.op = "complete_checkout" /\ ret.token
                               /\ ~ret.success /\ ret.checkout_id = cid),
                    !.amount = current_checkout.amount_total,
                    !.destination = current_checkout.merchant_account_id]
    IN  IF ~caps.set
          THEN \* self._capabilities.endpoints on None: AttributeError
               /\ ret' = [base EXCEPT
                             !.text = "'NoneType' object has no attribute 'endpoints'"]
               /\ sent' = {token}
               /\ UNCHANGED << current_cart, current_checkout, seenKeys, charges >>
          ELSE    /\ Cardinality(seenKeys) < MaxAttempts
                  /\ sent' = {token,
                              Request("complete_post", "complete_checkout", confirm)}
                  /\ seenKeys' = seenKeys \cup {key}
                  /\ charges' = IF MerchantCharges(key, answer)
                                  THEN [charges EXCEPT ![cid] = @ + 1]
                                  ELSE charges
                  /\ IF answer = "2xx"
                       THEN /\ current_cart' = << >>
                            /\ current_checkout' = NoCheckout
                            /\ ret' = [base EXCEPT !.success = TRUE,
                                          !.text = "Purchase completed successfully!"]
                       ELSE /\ ret' = [base EXCEPT !.text = "Complete checkout failed"]
                            /\ UNCHANGED << current_cart, current_checkout >>

\* a completion client that already holds the merchant's capabilities
UcpCompleteDiscovered(cid, confirm) ==
    UcpCompleteWith([set |-> TRUE, supported |-> TRUE, endpoints |-> "advertised"],
                    cid, confirm)

\* a completion that empties the cart and drops the checkout before the merchant
\* call has succeeded
UcpCompleteClearsFirst(cid, confirm) ==
    /\ ret' = [CompleteRet(confirm, FALSE,
                           "'NoneType' object has no attribute 'endpoints'")
                 EXCEPT !.checkout_id = cid, !.token = TRUE,
                        !.amount = current_checkout.amount_total,
                        !.destination = current_checkout.merchant_account_id]
    /\ sent' = {Request("token", "complete_checkout", confirm)}
    /\ current_cart' = << >>
    /\ current_checkout' = NoCheckout
    /\ UNCHANGED << seenKeys, charges >>

\* the client _complete_checkout builds is new: UCPClient(merchant_url) holds no
\* capabilities when complete_checkout reads self._capabilities.endpoints
UcpComplete(cid, confirm) == UcpCompleteWith(NewClientCapabilities, cid, confirm)

\* a gate that lets every call through
NotConfirmedNever(confirm) == FALSE

\* _complete_checkout's gate: if not confirm_purchase
NotConfirmed(confirm) == ~confirm

\* PaymentAgent._complete_checkout(checkout_id, confirm_purchase)
CompleteCheckout(cid, confirm) ==
    /\ IF NotConfirmed(confirm)
         THEN /\ ret' = CompleteRet(confirm, FALSE, "Purchase not confirmed by user")
              /\ sent' = {}
              /\ UNCHANGED << current_cart, current_checkout, seenKeys, charges >>
       ELSE IF ~HasCheckout(current_checkout)
         THEN /\ ret' = CompleteRet(confirm, FALSE, "No active checkout")
              /\ sent' = {}
              /\ UNCHANGED << current_cart, current_checkout, seenKeys, charges >>
       ELSE IF current_checkout.protocol = "UCP"
         THEN IF current_checkout.merchant_url = None
                THEN \* UCPClient(None): None.rstrip raises AttributeError
                     /\ ret' = CompleteRet(confirm, FALSE,
                                  "'NoneType' object has no attribute 'rstrip'")
                     /\ sent' = {}
                     /\ UNCHANGED << current_cart, current_checkout, seenKeys, charges >>
              ELSE \E token_ok \in BOOLEAN :    \* Stripe creates it, or raises
                     IF ~token_ok
                       THEN /\ ret' = CompleteRet(confirm, FALSE,
                                         "Shared Payment Token creation failed")
                            /\ sent' = {Request("token", "complete_checkout", confirm)}
                            /\ UNCHANGED << current_cart, current_checkout, seenKeys,
                                            charges >>
                       ELSE UcpComplete(cid, confirm)
       ELSE /\ ret' = CompleteRet(confirm, TRUE,
                         "Please complete payment at the checkout URL")
            /\ sent' = {}
            /\ UNCHANGED << current_cart, current_checkout, seenKeys, charges >>
    /\ UNCHANGED << agentFrame, enable_browser_fallback, call, nsessions >>

\* ------------------------------------------------------------ specification
Next ==
    \/ \E p \in Products, q \in Quantities : AddToCart(p, q)
    \/ ViewCart
    \/ ClearCart
    \/ \E m \in Merchants, a \in Addresses : CreateCheckoutStart(m, a)
    \/ \E ans \in DiscoveryAnswers : DiscoveryResponds(ans)
    \/ \E ok \in BOOLEAN, shape \in CheckoutShapes : UcpCreateResponds(ok, shape)
    \/ \E site \in Sites : BrowserAutomationReturns(site)
    \/ \E cid \in CheckoutIds, confirm \in BOOLEAN : CompleteCheckout(cid, confirm)

Spec == Init /\ [][Next]_vars

\* a UCPClient instance used on its own, by any sequence of calls
ClientNext ==
    \/ \E op \in ClientMethods : ClientCall(op)
    \/ \E base \in ClientBases : ClientConstruct(base)
    \/ \E ans \in ClientDiscoveryAnswers : ClientDiscoveryResponds(ans)
    \/ \E status \in RequestStatuses : ClientRequestResponds(status)

SpecClient == Init /\ [][ClientNext]_vars

\* two coroutines that each call supports_ucp() or create_checkout() once on a
\* new UCPClient instance, the second while the first awaits discovery
OverlapNext ==
    \/ \E base \in ClientBases : OverlapConstruct(base)
    \/ \E op \in {"supports_ucp", "create_checkout"} : FirstCall(op)
    \/ \E ans \in ClientDiscoveryAnswers : ClientDiscoveryResponds(ans)
    \/ \E status \in RequestStatuses : ClientRequestResponds(status)
    \/ \E op \in {"supports_ucp", "create_checkout"} : SecondCall(op)
    \/ \E ans \in ClientDiscoveryAnswers : SecondDiscoveryResponds(ans)
    \/ \E status \in RequestStatuses : SecondRequestResponds(status)

SpecOverlap == Init /\ [][OverlapNext]_vars

\* connections to /api/video-call/live, their clients and the Gemini side
VideoNext ==
    \/ \E w \in Connections, session_ok \in BOOLEAN : VideoConnect(w, session_ok)
    \/ \E w \in Connections : ClientDisconnects(w)
    \/ \E w \in Connections, turn_complete, closes, send_raises \in BOOLEAN :
          GeminiSends(w, turn_complete, closes, send_raises)
    \/ \E w \in Connections, error \in BOOLEAN : FrontendMessage(w, error)
    \/ \E w \in Connections : FrontendNoticesDisconnect(w)
    \/ \E w \in Connections : GatherReturns(w)

\* the event loop runs every handler step that is ready; nothing obliges the
\* client or Gemini to act
SpecVideo ==
    /\ Init /\ [][VideoNext]_vars
    /\ \A w \in Connections :
          WF_vars(FrontendNoticesDisconnect(w)) /\ WF_vars(GatherReturns(w))

\* chat() calls of several coroutines on one PaymentAgent
ChatNext ==
    \/ \E c \in ChatCallers, answer \in ModelAnswers : ChatStart(c, answer)
    \/ \E c \in ChatCallers, tool_raises \in BOOLEAN, answer \in {"text", "raises"} :
          ChatToolReturns(c, tool_raises, answer)

SpecChat == Init /\ [][ChatNext]_vars

\* _create_checkout calls and the cart handlers that run while one is suspended
CreateNext ==
    \/ \E p \in Products, q \in Quantities : AddToCart(p, q)
    \/ ClearCart
    \/ \E m \in Merchants, a \in Addresses : CreateCheckoutTracked(m, a)
    \/ \E ans \in DiscoveryAnswers : DiscoveryResponds(ans)
    \/ \E ok \in BOOLEAN, shape \in CheckoutShapes : UcpCreateResponds(ok, shape)
    \/ \E site \in Sites : BrowserAutomationReturns(site)

SpecCreate == Init /\ [][CreateNext]_vars

\* a BrowserAutomation instance used on its own, one automate_checkout at a time
BrowserNext ==
    \/ \E n \in 0..MaxCart, address \in BOOLEAN, launches \in BOOLEAN :
          BrowserCall(n, address, launches)
    \/ \E reachable \in BOOLEAN : BrowserGoto(reachable)
    \/ \E found \in BOOLEAN : BrowserAddItem(found)
    \/ \E found \in BOOLEAN : BrowserNavigate(found)
    \/ \E saved \in BOOLEAN : BrowserHandlePayment(saved)
    \/ \E site \in Sites : BrowserCompleteOrder(site)
    \/ \E screenshot_ok \in BOOLEAN : BrowserExcept(screenshot_ok)
    \/ BrowserFinally
    \/ BrowserStop

SpecBrowser == Init /\ [][BrowserNext]_vars

\* requests of several clients to the /payment-agent routes of one process
RoutesNext ==
    \/ \E u \in Users : GetAgentCheck(u)
    \/ \E u \in Users : GetAgentConstruct(u)
    \/ \E u \in Users : GetAgentReturn(u)
    \/ \E u \in Users, route \in {"search-products", "order/status"},
          outcome \in {"success", "failure", "raises"} : RouteStateless(u, route, outcome)
    \/ \E u \in Users, outcome \in {"success", "failure"} : RouteAddToCart(u, outcome)
    \/ \E u \in Users, outcome \in {"success", "raises"} : RouteViewCart(u, outcome)
    \/ \E u \in Users : RouteClearCart(u)
    \/ \E u \in Users, outcome \in {"success", "failure", "raises"},
          id \in 1..MaxCheckouts : RouteCreateCheckout(u, outcome, id)
    \/ \E u \in Users, confirm \in BOOLEAN, outcome \in {"success", "failure"},
          clears \in BOOLEAN : RouteCompleteCheckout(u, confirm, outcome, clears)

SpecRoutes == Init /\ [][RoutesNext]_vars

\* uploads, polls and deletions on the /3d routes, and the background tasks
JobsNext ==
    \/ \E valid \in BOOLEAN, async_mode \in BOOLEAN : GenerateCustomBoyfriend(valid, async_mode)
    \/ \E j \in JobIds : TaskStart(j)
    \/ \E j \in JobIds : TaskWake(j)
    \/ \E id \in JobIds \cup OldModels : GetJobStatus(id)
    \/ \E id \in JobIds \cup OldModels : DeleteCustomBoyfriend(id)

\* the event loop runs every task that is ready and every sleep ends
SpecJobs ==
    /\ Init /\ [][JobsNext]_vars
    /\ \A j \in JobIds : WF_vars(TaskStart(j)) /\ WF_vars(TaskWake(j))

\* ------------------------------------------------------------------ claims

\* C1: _complete_checkout with confirm_purchase=false, whatever the agent state and
\* the checkout_id, issues no Stripe or merchant request, returns exactly
\* {success: false, message: "Purchase not confirmed by user"} and leaves
\* current_cart and current_checkout unchanged.
C1_UnconfirmedIsNoOp ==
    [][ (ret'.op = "complete_checkout" /\ ~ret'.confirm) =>
            /\ ~ret'.success
            /\ ret'.text = "Purchase not confirmed by user"
            /\ ~ret'.token /\ ret'.protocol = None
            /\ sent' = {}
            /\ UNCHANGED << current_cart, current_checkout, seenKeys, charges >> ]_vars

C1_Witness ==
    /\ ret.op = "complete_checkout" /\ ~ret.confirm
    /\ current_checkout.via = "ucp" /\ current_checkout.protocol = "UCP"
    /\ current_cart # << >>

\* C2: every payment-token creation, UCP completion POST and browser 'place order'
\* click is issued by a _complete_checkout call made with confirm_purchase=true;
\* no other operation, _create_checkout included, places an order.
C2_OrdersNeedConfirmation ==
    \A r \in sent :
        r.kind \in {"token", "complete_post", "place_order_click"} =>
            (r.op = "complete_checkout" /\ r.confirm)

\* C3: after any _complete_checkout call that returns success=true the cart is empty
\* (_view_cart().item_count = 0), for a UCP and for a Stripe-hosted checkout.
C3_CartEmptyAfterSuccess ==
    (ret.op = "complete_checkout" /\ ret.success) => Len(current_cart) = 0

\* C4: a _create_checkout or _complete_checkout call that returns success=false has
\* not written current_cart or current_checkout: neither its returning step nor any
\* earlier step of the call changes them.
C4_NoPartialMutation ==
    [][ /\ (ret'.op \in {"create_checkout", "complete_checkout"} /\ ~ret'.success)
              => UNCHANGED << current_cart, current_checkout >>
        /\ (ret' = NoRet /\ call'.pc # "idle")
              => UNCHANGED << current_cart, current_checkout >> ]_vars

C4_Witness ==
    /\ ret.op = "complete_checkout" /\ ret.token /\ ~ret.success
    /\ current_cart # << >> /\ HasCheckout(current_checkout)

C6_TokenScopedToNamedCheckout ==
    (ret.op = "complete_checkout" /\ ret.token) =>
        /\ ret.checkout_id \in 1..nsessions
        /\ ret.amount = SessionTotal(ret.checkout_id)

\* C7 as stated: once discovery has returned, a _create_checkout call executes
\* exactly one strategy, the one (supports_ucp, enable_browser_fallback) determines.
C7_ExactlyOneStrategy ==
    (ret.op = "create_checkout" /\ ret.discovered) =>
        ret.strategies = { IF ret.supports THEN "ucp"
                           ELSE IF enable_browser_fallback THEN "browser"
                           ELSE "stripe" }

\* C7 as amended: a _create_checkout call runs no strategy before discovery has
\* returned and never two; once discovery has returned it runs exactly the strategy
\* (supports_ucp, enable_browser_fallback) determines, except that on the UCP path
\* a shipping_address that Address rejects ends the call with success=false before
\* the create POST; a successful Stripe-hosted call reports protocol
\* "Stripe Checkout" and stores a session with a url and an id.
C7_OneStrategyUnlessAddressRejected ==
    LET expected(supports) == IF supports THEN "ucp"
                              ELSE IF enable_browser_fallback THEN "browser"
                              ELSE "stripe"
    IN  /\ (ret.op = "create_checkout" /\ ret.discovered) =>
              IF ret.text = "Address validation error"
                THEN ret.strategies = {} /\ ret.supports /\ ~ret.success
                ELSE ret.strategies = {expected(ret.supports)}
        /\ (ret.op = "create_checkout" /\ ~ret.discovered) => ret.strategies = {}
        /\ call.strategies # {} =>
              /\ call.discovered
              /\ call.strategies = {expected(SupportsUcpResult(call.caps))}
        /\ (ret.op = "create_checkout" /\ ret.success /\ ret.strategies = {"stripe"}) =>
              /\ ret.protocol = "Stripe Checkout"
              /\ current_checkout.url # None /\ current_checkout.id # 0

C7_Witness ==
    /\ ret.op = "create_checkout" /\ ret.success /\ ret.protocol = "Stripe Checkout"
    /\ ~enable_browser_fallback /\ ret.strategies = {"stripe"}

\* C8: a confirmed _complete_checkout on a checkout the UCP branch created, for which
\* token creation succeeds and the merchant answers completion POSTs with 2xx,
\* returns success=true and clears current_cart and current_checkout.
C8_UcpCompletionSucceeds ==
    (ret.op = "complete_checkout" /\ ret.confirm /\ ret.via = "ucp"
        /\ ret.token /\ ret.answer = "2xx") =>
        /\ ret.success
        /\ current_cart = << >>
        /\ current_checkout = NoCheckout

\* C9: a discover() or supports_ucp() call whose GET /.well-known/ucp is answered
\* 404 does not raise, caches supported=false, and supports_ucp() returns false;
\* any other answer outside 2xx makes the call raise.
C9_Only404IsNotAnError ==
    (client.pc = "idle" /\ client.op \in {"discover", "supports_ucp"}
        /\ client.status # -1) =>
        /\ client.status = 404 =>
              /\ client.value # "raised"
              /\ client.caps.set /\ ~client.caps.supported
              /\ client.op = "supports_ucp" => client.value = "false"
        /\ (client.status # 404 /\ ~(client.status \in 200..299)) =>
              client.value = "raised"

\* C10: on one UCPClient instance a supports_ucp() or create_checkout() call sends
\* one GET /.well-known/ucp while nothing is cached and none once a discovery has
\* returned (404 or valid capabilities); no step after the start of a call sends a GET.
C10_DiscoveryOnce ==
    [][ /\ (client.pc = "idle" /\ client'.op \in {"supports_ucp", "create_checkout"}) =>
              client'.gets = client.gets + (IF client.caps.set THEN 0 ELSE 1)
        /\ client.pc # "idle" => client'.gets = client.gets ]_vars

C10_Witness ==
    /\ client.op = "create_checkout" /\ client.value = "checkout"
    /\ client.gets = 1 /\ client.status = -1

\* C11: a create_checkout() call on an instance whose discovery reported
\* supported=false sends no checkout POST and ends by raising.
C11_UnsupportedCreateRaises ==
    (client.op = "create_checkout" /\ client.caps.set /\ ~client.caps.supported) =>
        /\ client.pc # "post"
        /\ client.url = NoUrl
        /\ \A i \in DOMAIN client.sends : client.sends[i] # "create_checkout"
        /\ client.pc = "idle" => client.value = "raised"

C11_Witness ==
    /\ client.op = "create_checkout" /\ client.pc = "idle"
    /\ client.status = 404 /\ client.value = "raised"

\* C12: once a capability document is cached, the request of create, update,
\* complete, cancel and get goes to the origin of the merchant base URL followed by
\* the path the endpoints map advertises for that operation, unchanged for create
\* and with every "{id}" segment replaced by the checkout id for the others; the
\* built-in default path is the target only when the map has no entry for the
\* operation.
C12_AdvertisedEndpointsUsed ==
    client.url # NoUrl =>
        LET adv == EndpointsMap(client.caps.endpoints)[client.op]
            n == Len(adv.path)
        IN  /\ client.caps.set
            /\ client.url.origin = client.base.origin
            /\ adv.present =>
                 /\ Len(client.url.path) = n
                 /\ \A i \in 1..n :
                      client.url.path[i] =
                        IF adv.path[i] = "{id}" /\ client.op # "create_checkout"
                          THEN client.id ELSE adv.path[i]
            /\ client.url.path = DefaultPath(client.op, client.id) => ~adv.present

C12_Witness ==
    /\ client.op = "cancel_checkout" /\ client.id = "co_2"
    /\ client.caps.endpoints = "advertised"
    /\ client.url.path = <<"api", "co_2", "cancel", "co_2">>
    /\ client.base.path = <<"store">>

\* C13: every UCPClient method sends each of its HTTP requests at most once per
\* call, and a call whose request met a network error or an answer outside 2xx
\* (other than 404 on discovery) ends by raising, not by returning a value.
C13_SingleAttemptAndRaise ==
    /\ \A i, j \in DOMAIN client.sends :
          client.sends[i] = client.sends[j] => i = j
    /\ (client.pc = "idle" /\ client.op # None) =>
          /\ (client.status # -1 /\ client.status # 404
                /\ ~(client.status \in 200..299)) => client.value = "raised"
          /\ (client.answer # -1 /\ ~(client.answer \in 200..299)) =>
                client.value = "raised"

\* C14: every _add_to_cart call appends one new entry to current_cart and leaves
\* the entries already there as they were, also when the product_id is already in
\* the cart; the cart_size it returns is the length before the call plus one.
C14_AddAppendsOneEntry ==
    [][ ret'.op = "add_to_cart" =>
          /\ Len(current_cart') = Len(current_cart) + 1
          /\ SubSeq(current_cart', 1, Len(current_cart)) = current_cart
          /\ current_cart'[Len(current_cart')].product_id \in Products
          /\ ret'.success /\ ret'.count = Len(current_cart) + 1 ]_vars

C14_Witness ==
    /\ ret.op = "add_to_cart" /\ Len(current_cart) = 2
    /\ current_cart[1].product_id = current_cart[2].product_id

\* C15: in automate_checkout the 'place order' control is clicked only after every
\* cart item was added, then checkout navigation succeeded, then a saved payment
\* method was selected; when an item cannot be added or no saved payment method is
\* found the call returns success=false and performs no later step.  No step
\* enters card data.
C15_PlaceOrderLast ==
    LET log == browser.log
        Count(step) == Cardinality({i \in DOMAIN log : log[i] = step})
        Before(a, b) == \A i, j \in DOMAIN log : (log[i] = a /\ log[j] = b) => i < j
    IN  /\ \A i \in DOMAIN log : log[i] \in {"add", "checkout", "shipping", "payment", "place"}
        /\ Count("place") > 0 =>
              /\ browser.todo = 0
              /\ Count("checkout") = 1 /\ Count("payment") = 1
              /\ Before("add", "checkout") /\ Before("checkout", "payment")
              /\ Before("payment", "place")
        /\ browser.error = "Failed to add item to cart" =>
              /\ browser.outcome = "returned" /\ ~browser.success
              /\ \A i \in DOMAIN log : log[i] = "add"
        /\ browser.error = "No automatable payment method found" =>
              /\ browser.outcome = "returned" /\ ~browser.success
              /\ Count("payment") = 0 /\ Count("place") = 0

C15_Witness ==
    /\ browser.pc = "idle" /\ browser.outcome = "returned" /\ browser.success
    /\ browser.log = <<"add", "add", "checkout", "shipping", "payment", "place">>

\* C16: an automate_checkout call that returns success=false has clicked no 'place
\* order' control.
C16_FailureMeansNotSubmitted ==
    (browser.outcome = "returned" /\ ~browser.success) =>
        \A i \in DOMAIN browser.log : browser.log[i] # "place"

\* C17: when an automate_checkout call has ended, its page and its browser context
\* are closed, and the call ended with a result dict, not with an exception.
C17_ReleasedAndStructured ==
    (browser.pc = "idle" /\ browser.outcome # None) =>
        /\ ~browser.page
        /\ ~browser.context
        /\ browser.outcome = "returned"

\* C18: on the routes search-products, cart/add, checkout/create, checkout/complete
\* and order/status an orchestrator result with success=false is answered 400 and an
\* exception raised inside the handler 500; the 400 the handler raises is not turned
\* into a 500.
C18_RouteStatusCodes ==
    server.http.route \in {"search-products", "cart/add", "checkout/create",
                           "checkout/complete", "order/status"} =>
        /\ server.http.outcome = "failure" => server.http.status = 400
        /\ server.http.outcome = "raises" => server.http.status = 500
        /\ server.http.outcome = "success" => server.http.status = 200

C18_Witness ==
    /\ server.http.route = "checkout/complete" /\ server.http.outcome = "failure"
    /\ server.http.status = 400 /\ server.http.checkout # 0

\* C19: all requests of one process work on one cart and one current checkout: the
\* handlers of any two users' requests hold the same PaymentAgent, a GET /cart
\* of any user returns the one cart with the entries other users added, and the
\* checkout a request created is the current checkout of every later request.
C19_OneSharedAgent ==
    /\ \A u, v \in Users :
          (server.req[u].pc = "ready" /\ server.req[v].pc = "ready") =>
              server.req[u].agent = server.req[v].agent
    /\ \A u \in Users : server.req[u].pc = "ready" => server.req[u].agent = server.instance
    /\ (server.http.route = "cart" /\ server.http.outcome = "success") =>
          server.http.items = server.agents[server.instance].cart
    /\ (server.http.route = "checkout/create" /\ server.http.outcome = "success") =>
          server.http.checkout = server.agents[server.instance].checkout

\* C20: an async generate call answers with the job id while the entry of the job
\* is at 'processing' with progress 0; the progress of an entry never goes down
\* while its task runs; the entry of every started job eventually is 'completed'
\* with progress 100; a 'completed' or 'failed' entry never is 'processing' again.
C20_JobLifecycle ==
    /\ [](\A j \in JobIds :
            /\ jobs.task[j].pc = "scheduled" =>
                  jobs.statuses[j] = [status |-> "processing", progress |-> 0]
            /\ (jobs.http.route = "generate" /\ jobs.http.status = "processing"
                  /\ jobs.http.job = j /\ jobs.task[j].pc = "scheduled") =>
                  jobs.http.progress = 0)
    /\ [][\A j \in JobIds :
            /\ jobs.task[j].pc \in {"scheduled", "sleeping"} =>
                  jobs'.statuses[j].progress >= jobs.statuses[j].progress
            /\ jobs.statuses[j].status \in {"completed", "failed"} =>
                  jobs'.statuses[j].status # "processing"]_vars
    /\ \A j \in JobIds :
            (jobs.task[j].pc = "scheduled") ~>
                (jobs.statuses[j] = [status |-> "completed", progress |-> 100])

C20_Witness ==
    /\ jobs.task[1].pc = "done" /\ jobs.statuses[1].status = "completed"
    /\ jobs.task[2].pc = "sleeping" /\ jobs.statuses[2].progress = 60
    /\ jobs.http.route = "status" /\ jobs.http.job = 2 /\ jobs.http.status = "processing"

\* C21: a _complete_checkout call with confirm_purchase=true made while there is no
\* current checkout returns success=false with error "No active checkout", creates
\* no payment token and sends no merchant request.
C21_NoCheckoutNoCompletion ==
    [][ (ret'.op = "complete_checkout" /\ ret'.confirm
            /\ current_checkout = NoCheckout) =>
            /\ ~ret'.success
            /\ ret'.text = "No active checkout"
            /\ ~ret'.token
            /\ sent' = {}
            /\ UNCHANGED << current_cart, current_checkout, seenKeys, charges >> ]_vars

C21_Witness ==
    /\ ret.op = "complete_checkout" /\ ret.confirm /\ ret.text = "No active checkout"
    /\ current_checkout = NoCheckout /\ current_cart # << >>

\* C22: whenever POST /payment-agent/checkout/create answers with success, the
\* protocol of the response names the strategy that ran (UCP, browser automation,
\* Stripe-hosted) and its checkout_id is the non-empty id of the session stored
\* as current_checkout.
C22_CreateResponseNamesSession ==
    (ret.op = "create_checkout" /\ ret.success) =>
        LET response == CreateCheckoutResponse(ret)
        IN  /\ ret.strategies = {"ucp"} => response.protocol = "UCP"
            /\ ret.strategies = {"stripe"} => response.protocol = "Stripe Checkout"
            /\ ret.strategies = {"browser"} =>
                  response.protocol \notin {"unknown", "UCP", "Stripe Checkout"}
            /\ response.checkout_id # 0
            /\ response.checkout_id = current_checkout.id

\* C23: get_agent creates at most one PaymentAgent in the life of the process and
\* hands that instance to every request, also when the first requests arrive
\* together; no request holds an instance that later requests cannot see.
C23_SingleAgentInstance ==
    /\ Len(server.agents) <= 1
    /\ \A u \in Users : server.req[u].agent # 0 => server.req[u].agent = server.instance

\* C24: the branch _complete_checkout takes matches the branch that created the
\* checkout: a checkout of the UCP branch of _create_checkout is completed by the
\* UCP branch (token, then completion POST), a Stripe-hosted session by the branch
\* that only returns the checkout URL.
C24_CompletionBranchMatchesCreation ==
    (ret.op = "complete_checkout" /\ ret.confirm) =>
        /\ ret.via = "ucp" =>
              ret.text # "Please complete payment at the checkout URL"
        /\ ret.via = "stripe" =>
              /\ ret.text = "Please complete payment at the checkout URL"
              /\ ~ret.token

\* C25: the line items _create_checkout sends to the merchant or hands to browser
\* automation are the cart as it was when the call started, also when add_to_cart
\* or clear_cart ran while the call was waiting for discovery.
C25_ItemsAreCartAtStart ==
    call.pc \in {"ucp_post", "browser"} => call.items = call.cart_at_start

\* C26: when a second supports_ucp() or create_checkout() call starts on a
\* UCPClient instance before the discovery answer of the first has arrived, the
\* instance still sends one discovery GET and both calls see the same capabilities.
C26_OverlappingCallsDiscoverOnce ==
    client.second.op # None =>
        /\ client.gets <= 1
        /\ (client.pc = "idle" /\ client.second.pc = "idle"
              /\ client.value \in {"true", "false"}
              /\ client.second.value \in {"true", "false"}) =>
              client.value = client.second.value

\* C27: DELETE /cart/clear and _add_to_cart write current_cart only: they leave
\* current_checkout (and the call in flight, the merchant's sessions and charges)
\* as they were, and send nothing; a confirmed _complete_checkout made while a
\* checkout is stored acts on that checkout.
C27_CartOpsKeepCheckout ==
    [][ /\ ret'.op \in {"add_to_cart", "clear_cart"} =>
              /\ UNCHANGED << current_checkout, call, nsessions, seenKeys, charges,
                              enable_browser_fallback >>
              /\ sent' = {}
        /\ (ret'.op = "complete_checkout" /\ ret'.confirm
              /\ current_checkout # NoCheckout) =>
              /\ ret'.text # "No active checkout"
              /\ ret'.via = current_checkout.via ]_vars

C27_Witness ==
    /\ ret.op = "clear_cart" /\ current_cart = << >>
    /\ current_checkout.via = "ucp" /\ current_checkout.id = 2

\* C28: every chat() call appends one 'user' entry and then one 'assistant' entry
\* (the reply or the "I encountered an error" message) and returns that assistant
\* text without raising; while no call is in progress the history has even
\* length; as long as calls never overlapped it alternates user, assistant.
C28_ChatHistoryPairs ==
    LET h == chats.history
        Count(role, c) ==
            Cardinality({i \in DOMAIN h : h[i].role = role /\ h[i].of = c})
    IN  /\ (\A c \in ChatCallers : chats.pc[c] = "idle") => Len(h) % 2 = 0
        /\ \A c \in ChatCallers :
              Count("user", c) - Count("assistant", c) =
                  IF chats.pc[c] = "idle" THEN 0 ELSE 1
        /\ \A i \in DOMAIN h :
              h[i].role = "assistant" =>
                  \E j \in 1..(i - 1) : h[j].role = "user" /\ h[j].of = h[i].of
        /\ ~chats.overlapped =>
              \A i \in DOMAIN h :
                  h[i].role = IF i % 2 = 1 THEN "user" ELSE "assistant"
        /\ chats.ret # NoChatRet =>
              /\ ~chats.ret.raised
              /\ h[chats.ret.entry] =
                    HistoryEntry("assistant", chats.ret.text, chats.ret.caller)

C28_Witness ==
    /\ ~chats.overlapped /\ Len(chats.history) = 6
    /\ chats.history[2].content = "error" /\ chats.history[4].content = "reply"
    /\ chats.ret.text = "error" /\ \A c \in ChatCallers : chats.pc[c] = "idle"

\* C29: GET /status/{job_id} answers status 'completed' only for a job that was
\* started and whose background task has finished; for an id that has no entry in
\* the status map (never issued, or deleted) it does not answer 'completed'.
C29_CompletedOnlyForFinishedJobs ==
    (jobs.http.route = "status" /\ jobs.http.status = "completed") =>
        /\ jobs.http.job \in JobIds
        /\ jobs.statuses[jobs.http.job] # NoEntry
        /\ jobs.task[jobs.http.job].pc = "done"

\* C30: after the client of a /api/video-call/live WebSocket has disconnected, the
\* handler eventually ends and the entry of the session is removed from
\* active_sessions, also when Gemini sends nothing more.
C30_DisconnectEndsSession ==
    \A w \in Connections :
        (video[w].peer = "gone") ~> (video[w].pc = "ended" /\ ~video[w].registered)

====
